---- MODULE Spec2Model ----
(***************************************************************************)
(* beamsplitter's Java back end (tools/beamsplitter/java.go) and its       *)
(* template (java.template).                                               *)
(*                                                                         *)
(* Text is a sequence of tokens.  A token is one character ("a", CR, LF,   *)
(* "[", ":", ...) or an indivisible chunk of text that holds none of the   *)
(* characters the code looks for (the marker sentence, "public ", ...).    *)
(* Two texts are the same bytes exactly when they are the same sequence.   *)
(***************************************************************************)
EXTENDS Integers, Sequences, FiniteSets, TLC

VARIABLES
    file,         \* bytes of <folder>/<classname>.java on disk
    definitions,  \* editJava's argument: the model's sequence of definitions
    modelRead,    \* whether the caller's model has been fixed yet (see ReadModel)
    pc,           \* where the running editJava stands
    codelines,    \* editJava's local: the retained prefix lines
    next,         \* index of the definition the generate loop is at
    rendered,     \* the calls of generate in this run and what each wrote
    cause,        \* why the run ended in log.Fatal ("" when it did not)
    before,       \* the bytes the run found in the file, for as long as the
                  \* run has not truncated it
    rawlines,     \* the lines of the file the run found, up to its marker line,
                  \* cut at line feeds only
    prev,         \* the previous run: how it ended, what it retained, what it
                  \* left, and whether the cause of its failure was fixed since
    field,        \* mapper specification: the StructField given to a helper
    result        \* mapper specification: the helper applied and what it returned

vars == <<file, definitions, modelRead, pc, codelines, next, rendered, cause,
          before, rawlines, prev, field, result>>

mergeVars == <<file, definitions, modelRead, pc, codelines, next, rendered, cause,
               before, rawlines, prev>>

----------------------------------------------------------------------------
(* Bounds of the model. *)

MaxFileLen == 4     \* bytes in the target file before the first run
MaxDefs == 2        \* definitions in the model
MaxRuns == 2        \* runs of editJava on the same file
MaxValueLen == 3    \* characters in a field's default value

----------------------------------------------------------------------------
(* Text helpers: the Go strings functions the code calls. *)

LF == "LF"
CR == "CR"

\* the sentinel sentence; its declaration is outside java.go
kCodelineMarker == "<beamsplitter marker>"

RECURSIVE Concat(_)
Concat(texts) ==
    IF texts = <<>> THEN <<>> ELSE Head(texts) \o Concat(Tail(texts))

\* strings.Repeat
RECURSIVE Repeat(_, _)
Repeat(text, n) == IF n <= 0 THEN <<>> ELSE text \o Repeat(text, n - 1)

\* strings.Contains / strings.Count for a one-token needle
Count(text, tok) == Cardinality({i \in 1..Len(text) : text[i] = tok})
Contains(text, tok) == \E i \in 1..Len(text) : text[i] = tok

\* strings.Index for a one-token needle: 0-based, -1 when absent
Index(text, tok) ==
    IF Contains(text, tok)
    THEN (CHOOSE i \in 1..Len(text) :
            text[i] = tok /\ \A j \in 1..(i - 1) : text[j] # tok) - 1
    ELSE -1

\* strings.ReplaceAll for a one-token needle
RECURSIVE ReplaceTok(_, _, _)
ReplaceTok(text, tok, with) ==
    IF text = <<>> THEN <<>>
    ELSE (IF Head(text) = tok THEN with ELSE <<Head(text)>>)
         \o ReplaceTok(Tail(text), tok, with)

----------------------------------------------------------------------------
(* bufio.Scanner with the default split function, bufio.ScanLines. *)

\* bufio.dropCR: one trailing carriage return is dropped
dropCR(data) ==
    IF Len(data) > 0 /\ data[Len(data)] = CR
    THEN SubSeq(data, 1, Len(data) - 1)
    ELSE data

\* Every token lineScanner.Scan() would deliver for these bytes, in order.
\* (Scan also stops at a line longer than bufio.MaxScanTokenSize, 64 KiB; the
\* files here are far shorter.)
RECURSIVE ScanLines(_)
ScanLines(data) ==
    IF data = <<>> THEN <<>>
    ELSE LET i == Index(data, LF)
         IN  IF i >= 0
             THEN <<dropCR(SubSeq(data, 1, i))>>
                  \o ScanLines(SubSeq(data, i + 2, Len(data)))
             ELSE <<dropCR(data)>>

\* the scan loop without the check of foundMarker after it
RECURSIVE ScanLoop_unchecked(_)
ScanLoop_unchecked(lines) ==
    IF lines = <<>> THEN [foundMarker |-> TRUE, codelines |-> <<>>]
    ELSE IF Contains(Head(lines), kCodelineMarker)
         THEN [foundMarker |-> TRUE, codelines |-> <<>>]
         ELSE LET rest == ScanLoop_unchecked(Tail(lines))
              IN  [foundMarker |-> TRUE,
                   codelines |-> <<Head(lines)>> \o rest.codelines]

\* the scan loop of editJava: the lines read before the first marker line
RECURSIVE ScanLoop(_)
ScanLoop(lines) ==
    IF lines = <<>> THEN [foundMarker |-> FALSE, codelines |-> <<>>]
    ELSE IF Contains(Head(lines), kCodelineMarker)
         THEN [foundMarker |-> TRUE, codelines |-> <<>>]
         ELSE LET rest == ScanLoop(Tail(lines))
              IN  [foundMarker |-> rest.foundMarker,
                   codelines |-> <<Head(lines)>> \o rest.codelines]

----------------------------------------------------------------------------
(* The template helpers of createJavaCodeGenerator. *)

JavaFloat == "java_float"

\* docblock
docblock(doc, depth) ==
    LET indent == Repeat(<<"    ">>, depth)
    IN  IF doc = <<>> THEN <<>>
        ELSE IF Count(doc, LF) > 0
             THEN ReplaceTok(doc, LF, <<LF>> \o indent)
             ELSE <<"/**", LF>> \o indent \o <<" * ">> \o doc \o <<LF>>
                  \o indent \o <<" */", LF>> \o indent

\* strings.Trim: leading and trailing characters of the cutset are removed
RECURSIVE TrimLeft(_, _)
TrimLeft(text, cutset) ==
    IF text # <<>> /\ Head(text) \in cutset
    THEN TrimLeft(Tail(text), cutset)
    ELSE text

RECURSIVE TrimRight(_, _)
TrimRight(text, cutset) ==
    IF text # <<>> /\ text[Len(text)] \in cutset
    THEN TrimRight(SubSeq(text, 1, Len(text) - 1), cutset)
    ELSE text

Trim(text, cutset) == TrimRight(TrimLeft(text, cutset), cutset)

\* strings.Contains(text, "::")
ContainsScope(text) ==
    \E i \in 1..(Len(text) - 1) : text[i] = ":" /\ text[i + 1] = ":"

\* strings.ReplaceAll(text, "::", "."): leftmost matches, not overlapping
RECURSIVE ReplaceScope(_)
ReplaceScope(text) ==
    IF text = <<>> THEN <<>>
    ELSE IF Len(text) >= 2 /\ text[1] = ":" /\ text[2] = ":"
         THEN <<".">> \o ReplaceScope(SubSeq(text, 3, Len(text)))
         ELSE <<Head(text)>> \o ReplaceScope(Tail(text))

\* annotation with the size rules tried before the nullptr rule
annotation_sizeFirst(f, depth) ==
    IF JavaFloat \in f.CustomFlags THEN <<>>
    ELSE LET a ==
               IF f.Type = <<"math::float2">>
                    THEN <<"@NonNull", " ", "@Size(min = 2)">>
               ELSE IF f.Type = <<"math::float3">> \/ f.Type = <<"LinearColor">>
                    THEN <<"@NonNull", " ", "@Size(min = 3)">>
               ELSE IF f.Type = <<"math::float4">> \/ f.Type = <<"LinearColorA">>
                    THEN <<"@NonNull", " ", "@Size(min = 4)">>
               ELSE IF f.DefaultValue = <<"nullptr">> THEN <<"@Nullable">>
               ELSE IF ContainsScope(f.DefaultValue) THEN <<"@NonNull">>
               ELSE <<>>
         IN  IF a = <<>> THEN <<>>
             ELSE a \o <<LF>> \o Repeat(<<"    ">>, depth)

\* annotation
annotation(f, depth) ==
    IF JavaFloat \in f.CustomFlags THEN <<>>
    ELSE LET a ==
               IF f.DefaultValue = <<"nullptr">> THEN <<"@Nullable">>
               ELSE IF f.Type = <<"math::float2">>
                    THEN <<"@NonNull", " ", "@Size(min = 2)">>
               ELSE IF f.Type = <<"math::float3">> \/ f.Type = <<"LinearColor">>
                    THEN <<"@NonNull", " ", "@Size(min = 3)">>
               ELSE IF f.Type = <<"math::float4">> \/ f.Type = <<"LinearColorA">>
                    THEN <<"@NonNull", " ", "@Size(min = 4)">>
               ELSE IF ContainsScope(f.DefaultValue) THEN <<"@NonNull">>
               ELSE <<>>
         IN  IF a = <<>> THEN <<>>
             ELSE a \o <<LF>> \o Repeat(<<"    ">>, depth)

\* java_type with the java_float check after the switch on the type
java_type_flagLast(f) ==
    IF f.Type \in {<<"math::float2">>, <<"math::float3">>, <<"math::float4">>,
                   <<"LinearColor">>, <<"LinearColorA">>}
         THEN <<" ", "float", "[", "]">>
    ELSE IF f.Type = <<"bool">> THEN <<" ", "boolean">>
    ELSE IF f.Type \in {<<"uint8_t">>, <<"uint16_t">>, <<"uint32_t">>}
         THEN <<" ", "int">>
    ELSE IF JavaFloat \in f.CustomFlags THEN <<" ", "float">>
    ELSE <<" ">> \o ReplaceTok(f.Type, "*", <<>>)

\* java_type
java_type(f) ==
    IF JavaFloat \in f.CustomFlags THEN <<" ", "float">>
    ELSE IF f.Type \in {<<"math::float2">>, <<"math::float3">>, <<"math::float4">>,
                        <<"LinearColor">>, <<"LinearColorA">>}
         THEN <<" ", "float", "[", "]">>
    ELSE IF f.Type = <<"bool">> THEN <<" ", "boolean">>
    ELSE IF f.Type \in {<<"uint8_t">>, <<"uint16_t">>, <<"uint32_t">>}
         THEN <<" ", "int">>
    ELSE <<" ">> \o ReplaceTok(f.Type, "*", <<>>)

\* java_value with the array rewrite tried before the float suffix
java_value_bracketsFirst(f) ==
    IF JavaFloat \in f.CustomFlags
    THEN LET arrayContents == Trim(f.DefaultValue, {" ", "[", "]"})
             comma == Index(arrayContents, ",")
         IN  IF comma > -1
             THEN <<" ">> \o SubSeq(arrayContents, 1, comma)
             ELSE <<" ">> \o arrayContents
    ELSE IF f.DefaultValue = <<"nullptr">> THEN <<" ", "null">>
    ELSE LET value == ReplaceScope(f.DefaultValue)
             c == Len(value)
         IN  IF c > 1 /\ value[1] = "[" /\ value[c] = "]"
             THEN <<" ", "{">> \o SubSeq(value, 2, c - 1) \o <<"}">>
             ELSE IF f.Type = <<"float">> THEN <<" ">> \o value \o <<"f">>
                  ELSE <<" ">> \o value

\* java_value
java_value(f) ==
    IF JavaFloat \in f.CustomFlags
    THEN LET arrayContents == Trim(f.DefaultValue, {" ", "[", "]"})
             comma == Index(arrayContents, ",")
         IN  IF comma > -1
             THEN <<" ">> \o SubSeq(arrayContents, 1, comma)
             ELSE <<" ">> \o arrayContents
    ELSE IF f.DefaultValue = <<"nullptr">> THEN <<" ", "null">>
    ELSE LET value == ReplaceScope(f.DefaultValue)
             c == Len(value)
         IN  IF f.Type = <<"float">> THEN <<" ">> \o value \o <<"f">>
             ELSE IF c > 1 /\ value[1] = "[" /\ value[c] = "]"
                  THEN <<" ", "{">> \o SubSeq(value, 2, c - 1) \o <<"}">>
                  ELSE <<" ">> \o value

----------------------------------------------------------------------------
(* Template execution (text/template): the text written to the file up to  *)
(* the end of the template or to the first error.                          *)

\* A pipeline argument as text/template sees it: a Go type and a value.
\* java.template hands the helpers $field.Type and $field.DefaultValue.
FieldTypeArg(f) == [gotype |-> "string", val |-> f.Type]
FieldDefaultArg(f) == [gotype |-> "string", val |-> f.DefaultValue]

\* the parameter type java_type and java_value declare
HelperParam == "parse.StructField"

\* text/template's validateType: the call is made only when the argument is
\* assignable to the parameter, else execution ends with an error
ArgAccepted(arg) == arg.gotype = HelperParam

\* the body of {{ range .Fields }} for the fields left to visit
RECURSIVE RangeFields(_)
RangeFields(fields) ==
    IF fields = <<>> THEN [out |-> <<>>, err |-> FALSE]
    ELSE LET f == Head(fields)
             lead == <<LF, "        ">> \o docblock(f.doc, 2) \o <<"public ">>
         IN  IF ~ArgAccepted(FieldTypeArg(f))
             THEN [out |-> lead, err |-> TRUE]
             ELSE LET named == lead \o java_type(FieldTypeArg(f).val)
                               \o <<" ", f.Name, " = ">>
                  IN  IF ~ArgAccepted(FieldDefaultArg(f))
                      THEN [out |-> named, err |-> TRUE]
                      ELSE LET rest == RangeFields(Tail(fields))
                           IN  [out |-> named
                                        \o java_value(FieldDefaultArg(f).val)
                                        \o <<";">> \o rest.out,
                                err |-> rest.err]

\* {{ define "Struct" }}
ExecStruct(d) ==
    LET head == <<LF, "    ">> \o docblock(d.doc, 1)
                \o <<"public static class ", d.BaseName, " {">>
        body == RangeFields(d.Fields)
    IN  IF body.err THEN [out |-> head \o body.out, err |-> TRUE]
        ELSE [out |-> head \o body.out \o <<LF, "    };", LF>>, err |-> FALSE]

\* the body of {{ range .Values }}
RECURSIVE RangeValues(_)
RangeValues(values) ==
    IF values = <<>> THEN <<>>
    ELSE <<LF, "        ">> \o docblock(Head(values).doc, 2)
         \o <<Head(values).Name, ",">> \o RangeValues(Tail(values))

\* {{ define "Enum" }}
ExecEnum(d) ==
    [out |-> <<LF, "    ">> \o docblock(d.doc, 1)
             \o <<"public enum ", d.BaseName, " {">>
             \o RangeValues(d.Values) \o <<LF, "    };", LF>>,
     err |-> FALSE]

\* templ.ExecuteTemplate(file, section, definition)
ExecuteTemplate(section, d) ==
    IF section = "Struct" THEN ExecStruct(d) ELSE ExecEnum(d)

----------------------------------------------------------------------------
(* The inputs: target files and models (package parse's schema). *)

FileChars == {"a", CR, LF, kCodelineMarker}

Files == UNION {[1..n -> FileChars] : n \in 0..MaxFileLen}

NoParent == "nil"

Strength ==
    [Type |-> <<"float">>, Name |-> "strength", DefaultValue |-> <<"1.5">>,
     CustomFlags |-> {}, doc |-> <<"how strong">>]

Tint ==
    [Type |-> <<"math::float3">>, Name |-> "tint",
     DefaultValue |-> <<"[", "1", ",", "1", ",", "1", "]">>,
     CustomFlags |-> {}, doc |-> <<>>]

StructPlain ==
    [kind |-> "Struct", parent |-> NoParent, BaseName |-> "Options",
     doc |-> <<"render options">>, Fields |-> <<>>, Values |-> <<>>]

StructWithFields ==
    [kind |-> "Struct", parent |-> NoParent, BaseName |-> "Fog",
     doc |-> <<>>, Fields |-> <<Strength, Tint>>, Values |-> <<>>]

StructNested ==
    [kind |-> "Struct", parent |-> "Options", BaseName |-> "Inner",
     doc |-> <<>>, Fields |-> <<>>, Values |-> <<>>]

EnumTop ==
    [kind |-> "Enum", parent |-> NoParent, BaseName |-> "Quality",
     doc |-> <<"/**", LF, " * quality levels", LF, " */", LF>>, Fields |-> <<>>,
     Values |-> <<[Name |-> "LOW", doc |-> <<>>],
                  [Name |-> "HIGH", doc |-> <<"best">>]>>]

EnumNested ==
    [kind |-> "Enum", parent |-> "Options", BaseName |-> "Mode",
     doc |-> <<>>, Fields |-> <<>>, Values |-> <<[Name |-> "ON", doc |-> <<>>]>>]

\* a TypeDefinition that is neither a struct nor an enum
OtherDefinition ==
    [kind |-> "Other", parent |-> NoParent, BaseName |-> "Engine",
     doc |-> <<>>, Fields |-> <<>>, Values |-> <<>>]

DefUniverse ==
    {StructPlain, StructWithFields, StructNested, EnumTop, EnumNested,
     OtherDefinition}

Models == UNION {[1..n -> DefUniverse] : n \in 0..MaxDefs}

\* the fields the mapper specification hands to the helpers
IdleField ==
    [Type |-> <<>>, Name |-> "", DefaultValue |-> <<>>, CustomFlags |-> {},
     doc |-> <<>>]

NoResult == [helper |-> "none", depth |-> 0, out |-> <<>>]

NoPrev ==
    [n |-> 0, status |-> "none", cause |-> "", fixed |-> FALSE,
     codelines |-> <<>>, out |-> <<>>]

----------------------------------------------------------------------------
(* editJava, step by step.  log.Fatal ends the process at once: what was   *)
(* written to the file before it stays on disk.                            *)
(*                                                                         *)
(* The model is an argument nothing reads before the generate loop.  The   *)
(* specification fixes it at the step that enters the loop, which gives    *)
(* the same runs as fixing it at the call.                                  *)

Init ==
    /\ file \in Files
    /\ definitions = <<>>
    /\ modelRead = FALSE
    /\ pc = "start"
    /\ codelines = <<>>
    /\ next = 1
    /\ rendered = <<>>
    /\ cause = ""
    /\ before = file
    /\ rawlines = <<>>
    /\ prev = NoPrev
    /\ field = IdleField
    /\ result = NoResult

Fatal(why) ==
    /\ pc' = "fatal"
    /\ cause' = why

\* os.Open fails
OpenFails ==
    /\ pc = "start"
    /\ Fatal("open")
    /\ UNCHANGED <<file, definitions, modelRead, codelines, next, rendered,
                   before, rawlines, prev, field, result>>

\* the lines of the bytes, cut at line feeds and nothing dropped
RECURSIVE RawLines(_)
RawLines(data) ==
    IF data = <<>> THEN <<>>
    ELSE LET i == Index(data, LF)
         IN  IF i >= 0
             THEN <<SubSeq(data, 1, i)>>
                  \o RawLines(SubSeq(data, i + 2, Len(data)))
             ELSE <<data>>

\* the scan loop ends at a marker line
ScanFindsMarker ==
    /\ pc = "start"
    /\ LET scan == ScanLoop(ScanLines(file))
       IN  /\ scan.foundMarker
           /\ codelines' = scan.codelines
    /\ rawlines' = ScanLoop(RawLines(file)).codelines
    /\ pc' = "scanned"
    /\ UNCHANGED <<file, definitions, modelRead, next, rendered, cause, before,
                   prev, field, result>>

\* the scan loop ends at the end of the input
ScanMissesMarker ==
    /\ pc = "start"
    /\ ~ScanLoop(ScanLines(file)).foundMarker
    /\ Fatal("marker")
    /\ UNCHANGED <<file, definitions, modelRead, codelines, next, rendered,
                   before, rawlines, prev, field, result>>

\* os.Create fails
CreateFails ==
    /\ pc = "scanned"
    /\ Fatal("create")
    /\ UNCHANGED <<file, definitions, modelRead, codelines, next, rendered,
                   before, rawlines, prev, field, result>>

\* os.Create truncates the file
Create ==
    /\ pc = "scanned"
    /\ file' = <<>>
    /\ before' = <<>>
    /\ pc' = "created"
    /\ UNCHANGED <<definitions, modelRead, codelines, next, rendered, cause,
                   rawlines, prev, field, result>>

\* the retained lines written back without their line feeds
RECURSIVE PrefixText_noNewline(_)
PrefixText_noNewline(lines) ==
    IF lines = <<>> THEN <<>>
    ELSE Head(lines) \o PrefixText_noNewline(Tail(lines))

\* the text of the retained lines as they are written back
RECURSIVE PrefixText(_)
PrefixText(lines) ==
    IF lines = <<>> THEN <<>>
    ELSE Head(lines) \o <<LF>> \o PrefixText(Tail(lines))

MarkerLine == <<"    // ", kCodelineMarker, LF>>

Terminator == <<"}", LF>>

\* the model the caller passed: any, unless an earlier run already read it
ReadModel ==
    IF modelRead THEN definitions' = definitions
    ELSE definitions' \in Models

\* The retained lines and the marker line are written, the loop is entered.
\* (editJava discards what WriteString returns; writes are taken to succeed.)
WriteHeader ==
    /\ pc = "created"
    /\ file' = file \o PrefixText(codelines) \o MarkerLine
    /\ ReadModel
    /\ modelRead' = TRUE
    /\ pc' = "generating"
    /\ next' = 1
    /\ UNCHANGED <<codelines, rendered, cause, before, rawlines, prev, field,
                   result>>

\* the dispatch without the Parent() check on structs
Section_noParentCheck(d) ==
    IF d.kind = "Struct" THEN "Struct"
    ELSE IF d.kind = "Enum" /\ d.parent = NoParent THEN "Enum"
    ELSE ""

\* the section editJava renders a definition with, "" when it renders none
Section(d) ==
    IF d.kind = "Struct" /\ d.parent = NoParent THEN "Struct"
    ELSE IF d.kind = "Enum" /\ d.parent = NoParent THEN "Enum"
    ELSE ""

\* generate(file, section, definition)
Generate(section) ==
    /\ pc = "generating"
    /\ next <= Len(definitions)
    /\ Section(definitions[next]) = section
    /\ LET r == ExecuteTemplate(section, definitions[next])
       IN  /\ file' = file \o r.out
           /\ rendered' = Append(rendered,
                                 [section |-> section, def |-> definitions[next],
                                  out |-> r.out, err |-> r.err])
           /\ IF r.err
              THEN Fatal("render") /\ next' = next
              ELSE pc' = pc /\ cause' = cause /\ next' = next + 1
    /\ UNCHANGED <<definitions, modelRead, codelines, before, rawlines, prev,
                   field, result>>

GenerateStruct == Generate("Struct")

GenerateEnum == Generate("Enum")

\* a definition with a parent, or of another variant, is passed over
SkipDefinition ==
    /\ pc = "generating"
    /\ next <= Len(definitions)
    /\ Section(definitions[next]) = ""
    /\ next' = next + 1
    /\ UNCHANGED <<file, definitions, modelRead, pc, codelines, rendered, cause,
                   before, rawlines, prev, field, result>>

WriteTerminator ==
    /\ pc = "generating"
    /\ next > Len(definitions)
    /\ file' = file \o Terminator
    /\ pc' = "done"
    /\ UNCHANGED <<definitions, modelRead, codelines, next, rendered, cause,
                   before, rawlines, prev, field, result>>

----------------------------------------------------------------------------
(* The caller: the tool is run again on the file the last run left.        *)

Ended == pc \in {"done", "fatal"}

Restart(fixed) ==
    /\ prev' = [n |-> prev.n + 1, status |-> pc, cause |-> cause,
                fixed |-> fixed, codelines |-> codelines, out |-> file]
    /\ pc' = "start"
    /\ codelines' = <<>>
    /\ next' = 1
    /\ rendered' = <<>>
    /\ cause' = ""
    /\ before' = file'
    /\ rawlines' = <<>>
    /\ UNCHANGED <<modelRead, field, result>>

\* The same model, the file as it was left.  A run that could not open or
\* create the file has changed nothing (file = before), so running again after
\* it is a first run once more, which Init already starts.
Rerun ==
    /\ Ended
    /\ cause \notin {"open", "create"}
    /\ prev.n + 1 < MaxRuns
    /\ UNCHANGED <<file, definitions>>
    /\ Restart(FALSE)

\* the developer adds the marker line the run missed
AddMarker(data) ==
    data \o (IF data # <<>> /\ data[Len(data)] # LF THEN <<LF>> ELSE <<>>)
         \o <<kCodelineMarker, LF>>

\* the model without the field data no template call accepts
RECURSIVE WithoutFields(_)
WithoutFields(defs) ==
    IF defs = <<>> THEN <<>>
    ELSE <<[Head(defs) EXCEPT !.Fields = <<>>]>> \o WithoutFields(Tail(defs))

\* the cause of a fatal run is fixed, then the tool is run again
RerunFixed ==
    /\ pc = "fatal"
    /\ prev.n + 1 < MaxRuns
    /\ cause \in {"marker", "render"}
    /\ file' = IF cause = "marker" THEN AddMarker(file) ELSE file
    /\ definitions' = IF cause = "render" THEN WithoutFields(definitions)
                      ELSE definitions
    /\ Restart(TRUE)

Next ==
    \/ OpenFails
    \/ ScanFindsMarker
    \/ ScanMissesMarker
    \/ CreateFails
    \/ Create
    \/ WriteHeader
    \/ GenerateStruct
    \/ GenerateEnum
    \/ SkipDefinition
    \/ WriteTerminator
    \/ Rerun
    \/ RerunFixed

Spec == Init /\ [][Next]_vars

----------------------------------------------------------------------------
(* The mapper specification: a helper is applied to a field.               *)

TypeVocabulary ==
    {"math::float2", "math::float3", "math::float4", "LinearColor",
     "LinearColorA", "bool", "uint8_t", "uint16_t", "uint32_t", "float"}

Types ==
    {<<t>> : t \in TypeVocabulary}
    \cup {<<"Texture">>, <<"Texture", "*">>, <<"*", "Texture", "*", "*">>,
          <<"bool", "*">>, <<"math::float3", "*">>}

ValueChars == {"[", "]", ",", ":", " ", "1", "nullptr"}

\* the defaults the specification's examples name
ExampleValues ==
    {<<"[", "1", ",", "2", ",", "3", "]">>, <<"Foo", ":", ":", "BAR">>,
     <<"1.5">>}

Values == UNION {[1..n -> ValueChars] : n \in 0..MaxValueLen} \cup ExampleValues

FlagSets == SUBSET {JavaFloat, "java_skip"}

Depths == {0, 1, 2}

MapperInit ==
    /\ field \in [Type : Types, Name : {"x"}, DefaultValue : Values,
                  CustomFlags : FlagSets, doc : {<<>>}]
    /\ result = NoResult
    /\ file = <<>>
    /\ definitions = <<>>
    /\ modelRead = FALSE
    /\ pc = "start"
    /\ codelines = <<>>
    /\ next = 1
    /\ rendered = <<>>
    /\ cause = ""
    /\ before = <<>>
    /\ rawlines = <<>>
    /\ prev = NoPrev

CallAnnotation ==
    /\ result.helper = "none"
    /\ \E depth \in Depths :
          result' = [helper |-> "annotation", depth |-> depth,
                     out |-> annotation(field, depth)]
    /\ UNCHANGED <<field, mergeVars>>

CallJavaType ==
    /\ result.helper = "none"
    /\ result' = [helper |-> "java_type", depth |-> 0, out |-> java_type(field)]
    /\ UNCHANGED <<field, mergeVars>>

CallJavaValue ==
    /\ result.helper = "none"
    /\ result' = [helper |-> "java_value", depth |-> 0, out |-> java_value(field)]
    /\ UNCHANGED <<field, mergeVars>>

MapperNext ==
    \/ CallAnnotation
    \/ CallJavaType
    \/ CallJavaValue

MapperSpec == MapperInit /\ [][MapperNext]_vars

----------------------------------------------------------------------------
(* The mapping rules as the specification words them.                      *)

HasFlag(f) == JavaFloat \in f.CustomFlags

\* the result of the first rule of the list whose condition holds
FirstMatch(rules) ==
    rules[CHOOSE i \in 1..Len(rules) :
            rules[i].when /\ \A j \in 1..(i - 1) : ~rules[j].when].then

MinOf(S) == CHOOSE m \in S : \A x \in S : m <= x
MaxOf(S) == CHOOSE m \in S : \A x \in S : x <= m

HoldsScope(text) ==
    \E i \in 1..(Len(text) - 1) : SubSeq(text, i, i + 1) = <<":", ":">>

AnnotationRules(f) ==
    <<[when |-> HasFlag(f), then |-> <<>>],
      [when |-> f.DefaultValue = <<"nullptr">>, then |-> <<"@Nullable">>],
      [when |-> f.Type = <<"math::float2">>,
       then |-> <<"@NonNull", " ", "@Size(min = 2)">>],
      [when |-> f.Type \in {<<"math::float3">>, <<"LinearColor">>},
       then |-> <<"@NonNull", " ", "@Size(min = 3)">>],
      [when |-> f.Type \in {<<"math::float4">>, <<"LinearColorA">>},
       then |-> <<"@NonNull", " ", "@Size(min = 4)">>],
      [when |-> HoldsScope(f.DefaultValue), then |-> <<"@NonNull">>],
      [when |-> TRUE, then |-> <<>>]>>

\* an annotation is followed by a line feed and four spaces per depth
Annotated(a, depth) ==
    IF a = <<>> THEN <<>>
    ELSE a \o <<LF>> \o [i \in 1..depth |-> "    "]

SizedTypes ==
    {<<"math::float2">>, <<"math::float3">>, <<"math::float4">>,
     <<"LinearColor">>, <<"LinearColorA">>}

\* C7: the annotation helper returns empty when java_float is present, else
\* the annotation of the first matching rule in the order nullptr, 2-vector,
\* 3-vector or LinearColor, 4-vector or LinearColorA, default holding "::",
\* none; a nullptr default gets @Nullable also on a vector or color type.
C7_AnnotationPrecedence ==
    result.helper = "annotation" =>
        /\ result.out = Annotated(FirstMatch(AnnotationRules(field)), result.depth)
        /\ HasFlag(field) => result.out = <<>>
        /\ (~HasFlag(field) /\ field.DefaultValue = <<"nullptr">>)
              => result.out = Annotated(<<"@Nullable">>, result.depth)

C7_Witness ==
    /\ result.helper = "annotation"
    /\ ~HasFlag(field)
    /\ field.DefaultValue = <<"nullptr">>
    /\ field.Type \in SizedTypes
    /\ result.depth = 2
    /\ result.out = <<"@Nullable", LF, "    ", "    ">>

\* the default read as a bracketed list: the blanks and brackets around it go
StripBrackets(v) ==
    LET keep == {i \in 1..Len(v) : v[i] \notin {" ", "[", "]"}}
    IN  IF keep = {} THEN <<>> ELSE SubSeq(v, MinOf(keep), MaxOf(keep))

\* the first element of a comma-separated list
FirstElement(list) ==
    LET commas == {i \in 1..Len(list) : list[i] = ","}
    IN  IF commas = {} THEN list ELSE SubSeq(list, 1, MinOf(commas) - 1)

\* every "::" from the left becomes "."
RECURSIVE DotFrom(_, _)
DotFrom(v, i) ==
    IF i > Len(v) THEN <<>>
    ELSE IF i < Len(v) /\ v[i] = ":" /\ v[i + 1] = ":"
         THEN <<".">> \o DotFrom(v, i + 2)
         ELSE <<v[i]>> \o DotFrom(v, i + 1)

Wrapped(t) == Len(t) > 1 /\ Head(t) = "[" /\ t[Len(t)] = "]"

ExpectedValue(f) ==
    IF HasFlag(f) THEN FirstElement(StripBrackets(f.DefaultValue))
    ELSE IF f.DefaultValue = <<"nullptr">> THEN <<"null">>
    ELSE LET dotted == DotFrom(f.DefaultValue, 1)
             suffixed == IF f.Type = <<"float">> THEN dotted \o <<"f">>
                         ELSE dotted
         IN  IF Wrapped(suffixed)
             THEN <<"{">> \o SubSeq(suffixed, 2, Len(suffixed) - 1) \o <<"}">>
             ELSE suffixed

\* C8: java_value returns, after one space: with java_float the first element
\* of the default read as a bracketed comma-separated list; else null for
\* nullptr; else the default with every "::" turned into ".", then "f"
\* appended when the type is float, then the text's surrounding "[" "]"
\* rewritten to "{" "}", the interior unchanged.  [1,2,3] with the flag gives
\* 1, Foo::BAR gives Foo.BAR, a float 1.5 gives 1.5f.
C8_ValueLiteral ==
    result.helper = "java_value" =>
        /\ result.out = <<" ">> \o ExpectedValue(field)
        /\ (HasFlag(field) /\ field.DefaultValue = <<"[", "1", ",", "2", ",", "3", "]">>)
              => result.out = <<" ", "1">>
        /\ (~HasFlag(field) /\ field.DefaultValue = <<"Foo", ":", ":", "BAR">>
            /\ field.Type # <<"float">>)
              => result.out = <<" ", "Foo", ".", "BAR">>
        /\ (~HasFlag(field) /\ field.DefaultValue = <<"1.5">>
            /\ field.Type = <<"float">>)
              => result.out = <<" ", "1.5", "f">>

C8_Witness ==
    /\ result.helper = "java_value"
    /\ ~HasFlag(field)
    /\ field.Type = <<"float">>
    /\ field.DefaultValue = <<"[", "1", "]">>
    /\ result.out = <<" ", "[", "1", "]", "f">>

TypeRules(f) ==
    <<[when |-> HasFlag(f), then |-> <<"float">>],
      [when |-> f.Type \in SizedTypes, then |-> <<"float", "[", "]">>],
      [when |-> f.Type = <<"bool">>, then |-> <<"boolean">>],
      [when |-> f.Type \in {<<"uint8_t">>, <<"uint16_t">>, <<"uint32_t">>},
       then |-> <<"int">>],
      [when |-> TRUE, then |-> SelectSeq(f.Type, LAMBDA t : t # "*")]>>

\* C9: java_type returns, after one space, the result of the first matching
\* rule: java_float present -> float whatever the type; a 2/3/4-component
\* float vector, LinearColor or LinearColorA -> float[]; bool -> boolean;
\* uint8_t, uint16_t or uint32_t -> int; any other type -> the type with
\* every "*" removed.
C9_TypeMapping ==
    result.helper = "java_type" =>
        /\ result.out = <<" ">> \o FirstMatch(TypeRules(field))
        /\ \A i \in 1..Len(result.out) : result.out[i] # "*"

C9_Witness ==
    /\ result.helper = "java_type"
    /\ HasFlag(field)
    /\ field.Type \in SizedTypes
    /\ result.out = <<" ", "float">>

----------------------------------------------------------------------------
(* The file merge and the record template as the specification words them. *)

HasMarkerLine(data) == \E i \in 1..Len(data) : data[i] = kCodelineMarker

TopLevel(d) == d.kind \in {"Struct", "Enum"} /\ d.parent = NoParent

TopLevelCount(defs, n) == Cardinality({i \in 1..n : TopLevel(defs[i])})

JoinLines(lines) == Concat([i \in 1..Len(lines) |-> lines[i] \o <<LF>>])

\* the declaration a run writes for a top-level definition
Declaration(d) ==
    (IF d.kind = "Struct" THEN ExecStruct(d) ELSE ExecEnum(d)).out

\* the file a successful run leaves for these retained lines and this model
Layout(lines, defs) ==
    LET top == SelectSeq(defs, TopLevel)
    IN  JoinLines(lines)
        \o <<"    // ", kCodelineMarker, LF>>
        \o Concat([i \in 1..Len(top) |-> Declaration(top[i])])
        \o <<"}", LF>>

\* C1: running editJava again with the same model on the file a successful
\* run left leaves that file byte for byte as it was.
C1_Idempotence ==
    (Ended /\ prev.status = "done") => file = prev.out

\* C2: after a successful run the first N lines of the file are the first N
\* lines of the original file, N being the number of lines before its marker.
C2_MarkerPreservation ==
    pc = "done" => SubSeq(RawLines(file), 1, Len(rawlines)) = rawlines

\* C3: a run on a file with no marker line ends in a fatal error with the file
\* unchanged, the truncating create is reached only from a file that has a
\* marker line, and a fatal run takes no further step of its own.
C3_MissingMarker ==
    [][/\ (pc = "start" /\ ~HasMarkerLine(file))
             => (pc' = "fatal" /\ file' = file)
       /\ pc' = "created" => HasMarkerLine(file)
       /\ pc = "fatal" => pc' = "start"]_vars

C3_Witness ==
    /\ pc = "fatal"
    /\ cause = "marker"
    /\ Len(file) = MaxFileLen
    /\ file = before
    /\ prev.n = 0

\* C4: after a successful run the file is the retained lines, one marker
\* comment line, the declarations of the top-level definitions in model order
\* and one terminator line, in this order and nothing else; no retained line
\* holds the marker text.
C4_OutputLayout ==
    pc = "done" =>
        /\ file = Layout(codelines, definitions)
        /\ \A i \in 1..Len(codelines) : ~HasMarkerLine(codelines[i])

C4_Witness ==
    /\ pc = "done"
    /\ Len(codelines) >= 2
    /\ definitions = <<EnumTop, StructPlain>>
    /\ Len(rendered) = 2
    /\ rendered[1].section = "Enum"

C6_Recovery ==
    (Ended /\ prev.status = "fatal" /\ prev.fixed) =>
        /\ pc = "fatal" => cause # prev.cause
        /\ (pc = "done" /\ prev.cause = "render")
              => file = Layout(prev.codelines, definitions)

\* the record declaration the template is meant to give
ExpectedStruct(d) ==
    <<LF, "    ">> \o docblock(d.doc, 1)
    \o <<"public static class ", d.BaseName, " {">>
    \o Concat([i \in 1..Len(d.Fields) |->
                 <<LF, "        ">> \o docblock(d.Fields[i].doc, 2)
                 \o <<"public ">> \o java_type(d.Fields[i])
                 \o <<" ", d.Fields[i].Name, " = ">>
                 \o java_value(d.Fields[i]) \o <<";">>])
    \o <<LF, "    };", LF>>

\* C10: rendering "Struct" for a top-level struct succeeds and writes the doc
\* comment, the header, every field in declaration order with its java_type,
\* name, " = " and java_value, and the closing line.
C10_RecordRendering ==
    \A i \in 1..Len(rendered) :
        rendered[i].section = "Struct"
            => /\ ~rendered[i].err
               /\ rendered[i].out = ExpectedStruct(rendered[i].def)

====
